---- MODULE Spec2Model ----
(***************************************************************************)
(* Model of the microservice process supervisor of HKS-Spatial             *)
(* (coordinator/service_manager.py): SubmoduleService (one managed child   *)
(* process with a status) and ServiceManager (the ordered registry with    *)
(* start_all / stop_all / restart_all / get_status).                       *)
(*                                                                         *)
(* The environment is nondeterministic: a child process may exit at any    *)
(* time, every health probe answers 200, a non-200 code or a network       *)
(* error, the interpreter or script may be missing, and a termination      *)
(* request may succeed gracefully, need a forced kill, or raise.           *)
(***************************************************************************)
EXTENDS Integers, FiniteSets, Sequences, TLC

\* ---------------------------------------------------------------- bounds
\* Total number of child processes spawned in one run of the model.
MaxSpawn == 2
\* Number of polling ticks of start(); the code uses 60 (line 111).
max_retries == 2
\* Number of signals delivered to the host process in one run.
MaxSignals == 2

\* ------------------------------------------------------- program constants
\* ServiceStatus (lines 27-33)
STOPPED == "stopped"
STARTING == "starting"
RUNNING == "running"
ERROR == "error"
UNHEALTHY == "unhealthy"
ServiceStatus == {STOPPED, STARTING, RUNNING, ERROR, UNHEALTHY}

\* The registry keys in registration order (lines 252-281).
Keys == <<"rag", "image_gen", "verbose">>
Services == {Keys[k] : k \in 1..Len(Keys)}

\* self.process = None
None == 0

\* What one HTTP GET of the health URL can produce (lines 200-214).
ProbeOutcomes == {"ok", "non200", "exception"}

VARIABLES
    status,     \* [Services -> ServiceStatus]      SubmoduleService.status
    process,    \* [Services -> 0..MaxSpawn]        SubmoduleService.process (None or the child's ordinal)
    alive,      \* [Services -> SUBSET Nat]         the children of a service that are running
    spawned,    \* [Services -> Nat]                number of children ever spawned for a service
    call,       \* the SubmoduleService method in progress or last returned
    mgr,        \* the ServiceManager method in progress or last returned
    host        \* the host process: ServiceManager._shutdown_requested and the signals

vars == <<status, process, alive, spawned, call, mgr, host>>

\* The part of the state the methods read and write, as a value.
World == [status |-> status, process |-> process, alive |-> alive, spawned |-> spawned]

SetWorld(w) ==
    /\ status' = w.status
    /\ process' = w.process
    /\ alive' = w.alive
    /\ spawned' = w.spawned

\* self.process.poll() is None
Live(w, s) == w.process[s] # None /\ w.process[s] \in w.alive[s]

RECURSIVE SumOver(_, _)
SumOver(f, S) == IF S = {} THEN 0
                 ELSE LET x == CHOOSE y \in S : TRUE IN f[x] + SumOver(f, S \ {x})

TotalSpawned(w) == SumOver(w.spawned, Services)

\* ------------------------------------------------------------ control state
\* op, s: the method and the service; at: where the method stands ("ret":
\* it returned val, "raised": an exception escaped it); i: the loop counter
\* of start(); term: it called terminate() on the handle; rep: it is a
\* start() that directly follows a successful start() of the same service;
\* out: the return statement start() left by.
CallRec(op, s, at, i, val, term, rep, out) ==
    [op |-> op, s |-> s, at |-> at, i |-> i, val |-> val, term |-> term,
     rep |-> rep, out |-> out, kill |-> FALSE]

CallNone == CallRec("none", "-", "-", 0, FALSE, FALSE, FALSE, "-")

\* op: the method; at: the loop it stands in ("stop", "start") or "ret";
\* idx: registry entries passed; exclude, ok (successful_services) and
\* failed (failed_services): the locals of start_all; val: the returned
\* value.  History only: calls counts the start()/stop() calls made on
\* each service, missing holds the services whose start() found no
\* interpreter or script, and failed, in stop_all, the services whose
\* stop() returned False or raised.  For get_status and health_check_all:
\* healthy holds the services the returned dictionary reports healthy,
\* answered (history) the services whose health URL answered 200 to a GET
\* issued during the call, prev (history) the healthy set returned by the
\* get_status call that directly preceded this one, and crashed (history)
\* the service whose start(), the call directly before this get_status,
\* found its child exited ("-" when there is none).
MgrRec(op, at, idx, exclude, ok, failed, calls, val) ==
    [op |-> op, at |-> at, idx |-> idx, exclude |-> exclude, ok |-> ok,
     failed |-> failed, calls |-> calls, val |-> val, missing |-> {},
     healthy |-> {}, answered |-> {}, prev |-> {}, crashed |-> "-",
     running |-> {}]

NoCalls == [s \in Services |-> 0]

MgrNone == MgrRec("none", "-", 0, {}, {}, {}, NoCalls, FALSE)

\* No method is executing: the caller may issue the next command.
CallIdle == call.at \in {"-", "ret", "raised"}
MgrIdle == mgr.at \in {"-", "ret"}
Idle == CallIdle /\ MgrIdle /\ host.up

\* The previous call returned success from the same method on the same service.
Repeat(op, s) == call.op = op /\ call.s = s /\ call.at = "ret" /\ call.val

\* The host process (lines 227-246): up and code, whether it runs and the
\* code it exited with; shutdown_requested, the flag of line 229; cmd, the
\* command of coordinator.main it was run for ("-" for another script).
\* History only: signals counts the signals delivered and sig_stop_alls the
\* calls of stop_all() made by the signal handler.
HostInit ==
    [up |-> TRUE, code |-> -1, shutdown_requested |-> FALSE, signals |-> 0,
     sig_stop_alls |-> 0, cmd |-> "-"]

Init ==
    /\ status = [s \in Services |-> STOPPED]
    /\ process = [s \in Services |-> None]
    /\ alive = [s \in Services |-> {}]
    /\ spawned = [s \in Services |-> 0]
    /\ call = CallNone
    /\ mgr = MgrNone
    /\ host = HostInit

\* ------------------------------------------------ SubmoduleService methods
\* check_health, were a failed probe of a Running service to kill the child
\* and drop the handle.
check_health_Killing(w, s, o) ==
    IF o = "ok" THEN [w EXCEPT !.status[s] = RUNNING]
    ELSE IF o = "non200" THEN [w EXCEPT !.status[s] = UNHEALTHY]
    ELSE IF w.status[s] = RUNNING
    THEN [w EXCEPT !.status[s] = UNHEALTHY, !.alive[s] = @ \ {w.process[s]},
                   !.process[s] = None]
    ELSE w

\* check_health (lines 198-214): the status after one probe with outcome o.
check_health(w, s, o) ==
    IF o = "ok" THEN [w EXCEPT !.status[s] = RUNNING]
    ELSE IF o = "non200" THEN [w EXCEPT !.status[s] = UNHEALTHY]
    ELSE IF w.status[s] = RUNNING THEN [w EXCEPT !.status[s] = UNHEALTHY]
    ELSE w

\* The value check_health returns (lines 202, 209, 214).
is_healthy(o) == o = "ok"

\* How a termination of the held child can end: it exits within the wait,
\* it has to be killed after the wait, terminate() raises, or kill() raises.
\* A child that has already exited makes terminate() and wait() no-ops.
TermOutcomes(w, s) ==
    IF w.process[s] = None THEN {"none"}
    ELSE IF Live(w, s) THEN {"graceful", "forced", "term_err", "kill_err"}
    ELSE {"exited"}

\* The held child is dead after a successful terminate()/kill().
Reap(w, s) == [w EXCEPT !.alive[s] = @ \ {w.process[s]}]

\* _cleanup_failed_process, were it to release the handle only of a child
\* it had to terminate.
cleanup_failed_process_KeepExited(w, s, o) ==
    IF w.process[s] = None THEN w
    ELSE IF o \in {"term_err", "kill_err", "exited"} THEN w
    ELSE [Reap(w, s) EXCEPT !.process[s] = None]

\* _cleanup_failed_process (lines 158-173).
cleanup_failed_process(w, s, o) ==
    IF w.process[s] = None THEN w
    ELSE IF o \in {"term_err", "kill_err"} THEN w
    ELSE [Reap(w, s) EXCEPT !.process[s] = None]

\* stop, were it to kill the child at once, with no terminate() and no wait.
stop_KillFirst(w, s, o) ==
    IF w.process[s] = None
    THEN [w |-> w, val |-> TRUE, raised |-> FALSE, term |-> FALSE, kill |-> FALSE]
    ELSE IF o \in {"term_err", "kill_err"}
    THEN [w |-> w, val |-> FALSE, raised |-> o = "kill_err", term |-> FALSE,
          kill |-> TRUE]
    ELSE [w |-> [Reap(w, s) EXCEPT !.status[s] = STOPPED],
          val |-> TRUE, raised |-> FALSE, term |-> FALSE, kill |-> TRUE]

\* stop (lines 175-196): the state it leaves, the value it returns, whether
\* it let an exception escape, and whether it called terminate() and
\* kill().  kill() is called in the handler of TimeoutExpired only (lines
\* 188-190), that is when the wait of line 183 ended with the child running.
stop(w, s, o) ==
    IF w.process[s] = None
    THEN [w |-> w, val |-> TRUE, raised |-> FALSE, term |-> FALSE, kill |-> FALSE]
    ELSE IF o = "term_err"
    THEN [w |-> w, val |-> FALSE, raised |-> FALSE, term |-> TRUE, kill |-> FALSE]
    ELSE IF o = "kill_err"
    THEN [w |-> w, val |-> FALSE, raised |-> TRUE, term |-> TRUE, kill |-> TRUE]
    ELSE [w |-> [Reap(w, s) EXCEPT !.status[s] = STOPPED],
          val |-> TRUE, raised |-> FALSE, term |-> TRUE, kill |-> o = "forced"]

\* ------------------------------------------------------------ start()
\* The bookkeeping of start_all's loop body after start() returned val
\* (lines 309-313); nothing when start() was called directly.
MgrAfterStart(m, s, val, out) ==
    IF m.at = "start"
    THEN [m EXCEPT !.idx = @ + 1,
                   !.ok = IF val THEN @ \cup {s} ELSE @,
                   !.failed = IF val THEN @ ELSE @ \cup {s},
                   !.missing = IF out = "missing" THEN @ \cup {s} ELSE @]
    ELSE m

\* start() returns val from the state w.
StartReturns(w, val, out) ==
    /\ SetWorld(w)
    /\ call' = [call EXCEPT !.at = "ret", !.val = val, !.out = out]
    /\ mgr' = MgrAfterStart(mgr, call.s, val, out)

\* start, were it to lack the already-running shortcut of lines 86-88.
StartBegin_NoShortcut(w, op, s, m) ==
    /\ SetWorld([w EXCEPT !.status[s] = STARTING])
    /\ call' = CallRec(op, s, "spawn", 0, FALSE, FALSE, op = "start" /\ Repeat("start", s), "-")
    /\ mgr' = m

\* start, lines 84-92: the already-running shortcut, else status Starting.
StartBegin(w, op, s, m) ==
    LET rep == op = "start" /\ Repeat("start", s)
    IN  IF w.status[s] = RUNNING
        THEN /\ SetWorld(w)
             /\ call' = CallRec(op, s, "ret", 0, TRUE, FALSE, rep, "running")
             /\ mgr' = MgrAfterStart(m, s, TRUE, "running")
        ELSE /\ SetWorld([w EXCEPT !.status[s] = STARTING])
             /\ call' = CallRec(op, s, "spawn", 0, FALSE, FALSE, rep, "-")
             /\ mgr' = m

\* start, were it to look for the script only after spawning the child.
StartSpawn_SpawnFirst ==
    /\ call.at = "spawn"
    /\ TotalSpawned(World) < MaxSpawn
    /\ LET s == call.s
           pid == spawned[s] + 1
           w == [World EXCEPT !.process[s] = pid, !.alive[s] = @ \cup {pid},
                              !.spawned[s] = pid]
       IN \/ \E o \in TermOutcomes(w, s) :
                StartReturns(
                    cleanup_failed_process([w EXCEPT !.status[s] = ERROR], s, o),
                    FALSE, "missing")
          \/ /\ SetWorld(w)
             /\ call' = [call EXCEPT !.at = "poll", !.i = 0]
             /\ mgr' = mgr
    /\ host' = host

\* start, lines 94-107 and the handler of lines 152-156: the interpreter or
\* the script is missing (FileNotFoundError; an OSError of Popen takes the
\* same branch), or the child is spawned and the handle recorded.
StartSpawn ==
    /\ call.at = "spawn"
    /\ LET s == call.s
       IN \/ \E o \in TermOutcomes(World, s) :
                StartReturns(
                    cleanup_failed_process([World EXCEPT !.status[s] = ERROR], s, o),
                    FALSE, "missing")
          \/ /\ TotalSpawned(World) < MaxSpawn
             /\ LET pid == spawned[s] + 1
                IN SetWorld([World EXCEPT !.process[s] = pid,
                                          !.alive[s] = @ \cup {pid},
                                          !.spawned[s] = pid])
             /\ call' = [call EXCEPT !.at = "poll", !.i = 0]
             /\ mgr' = mgr
    /\ host' = host

\* start, were a tick to probe before it looks whether the child exited.
StartTick_ProbeFirst ==
    /\ call.at = "poll"
    /\ call.i < max_retries
    /\ LET s == call.s
       IN \E o \in ProbeOutcomes :
             IF is_healthy(o)
             THEN StartReturns([check_health(World, s, o) EXCEPT !.status[s] = RUNNING],
                               TRUE, "healthy")
             ELSE IF ~Live(World, s)
             THEN StartReturns(
                      cleanup_failed_process([World EXCEPT !.status[s] = ERROR], s, "exited"),
                      FALSE, "crashed")
             ELSE /\ SetWorld(check_health(World, s, o))
                  /\ call' = [call EXCEPT !.i = @ + 1]
                  /\ mgr' = mgr
    /\ host' = host

\* start, lines 112-136: one iteration of the polling loop.
StartTick ==
    /\ call.at = "poll"
    /\ call.i < max_retries
    /\ LET s == call.s
       IN IF ~Live(World, s)
          THEN StartReturns(
                   cleanup_failed_process([World EXCEPT !.status[s] = ERROR], s, "exited"),
                   FALSE, "crashed")
          ELSE \E o \in ProbeOutcomes :
                   IF is_healthy(o)
                   THEN StartReturns([check_health(World, s, o) EXCEPT !.status[s] = RUNNING],
                                     TRUE, "healthy")
                   ELSE /\ SetWorld(check_health(World, s, o))
                        /\ call' = [call EXCEPT !.i = @ + 1]
                        /\ mgr' = mgr
    /\ host' = host

\* start, were the timeout to leave the status the last probe set.
StartTimeout_KeepStatus ==
    /\ call.at = "poll"
    /\ call.i = max_retries
    /\ LET s == call.s
       IN \/ \E o \in TermOutcomes(World, s) :
                StartReturns(cleanup_failed_process(World, s, o), FALSE, "timeout")
          \/ /\ Live(World, s)
             /\ SetWorld(World)
             /\ call' = [call EXCEPT !.at = "read"]
             /\ mgr' = mgr
    /\ host' = host

\* start, lines 138-150: the loop is exhausted.  The status is set to Error
\* and stderr of the child, a pipe (line 105), is read to its end (line
\* 144) before the cleanup: the read returns at once when the child has
\* exited or has closed its stderr, and blocks while a running child keeps
\* it open.
StartTimeout ==
    /\ call.at = "poll"
    /\ call.i = max_retries
    /\ LET s == call.s
       IN \/ \E o \in TermOutcomes(World, s) :
                StartReturns(
                    cleanup_failed_process([World EXCEPT !.status[s] = ERROR], s, o),
                    FALSE, "timeout")
          \/ /\ Live(World, s)
             /\ SetWorld([World EXCEPT !.status[s] = ERROR])
             /\ call' = [call EXCEPT !.at = "read"]
             /\ mgr' = mgr
    /\ host' = host

\* start, lines 144-150: the blocked read of stderr ends when the child
\* exits; the cleanup and the return follow.
StartTimeoutEOF ==
    /\ call.at = "read"
    /\ ~Live(World, call.s)
    /\ StartReturns(cleanup_failed_process(World, call.s, "exited"), FALSE, "timeout")
    /\ host' = host

\* ------------------------------------------- calls on one SubmoduleService
Start(s) ==
    /\ Idle
    /\ StartBegin(World, "start", s, MgrNone)
    /\ host' = host

Stop(s) ==
    /\ Idle
    /\ \E o \in TermOutcomes(World, s) :
          LET r == stop(World, s, o)
          IN /\ SetWorld(r.w)
             /\ call' = [CallRec("stop", s, IF r.raised THEN "raised" ELSE "ret", 0,
                                 r.val, r.term, FALSE, o) EXCEPT !.kill = r.kill]
    /\ mgr' = MgrNone
    /\ host' = host

\* check_health is called: the GET of lines 200-201 is under way.
CheckHealth(s) ==
    /\ Idle
    /\ call' = CallRec("check_health", s, "probe", 0, FALSE, FALSE, FALSE, "-")
    /\ mgr' = MgrNone
    /\ UNCHANGED <<status, process, alive, spawned>>
    /\ host' = host

\* check_health, lines 202-214: the probe answers and the method returns.
CheckHealthReturn ==
    /\ call.op = "check_health"
    /\ call.at = "probe"
    /\ \E o \in ProbeOutcomes :
          /\ SetWorld(check_health(World, call.s, o))
          /\ call' = [call EXCEPT !.at = "ret", !.val = is_healthy(o)]
    /\ mgr' = mgr
    /\ host' = host

\* restart, were it to give up when stop() returned False.
Restart_ChecksStop(s) ==
    /\ Idle
    /\ \E o \in TermOutcomes(World, s) :
          LET r == stop(World, s, o)
          IN IF r.raised \/ ~r.val
             THEN /\ SetWorld(r.w)
                  /\ call' = CallRec("restart", s, IF r.raised THEN "raised" ELSE "ret",
                                     0, FALSE, r.term, FALSE, "-")
                  /\ mgr' = MgrNone
             ELSE StartBegin(r.w, "restart", s, MgrNone)
    /\ host' = host

\* restart (lines 216-221): stop(), then start(); an exception of stop()
\* escapes before start() is reached.
Restart(s) ==
    /\ Idle
    /\ \E o \in TermOutcomes(World, s) :
          LET r == stop(World, s, o)
          IN IF r.raised
             THEN /\ SetWorld(r.w)
                  /\ call' = CallRec("restart", s, "raised", 0, FALSE, r.term, FALSE, "-")
                  /\ mgr' = MgrNone
             ELSE StartBegin(r.w, "restart", s, MgrNone)
    /\ host' = host

\* ------------------------------------------------------ ServiceManager
\* start_all, lines 283-300.
StartAll(exclude) ==
    /\ Idle
    /\ mgr' = MgrRec("start_all", "start", 0, exclude, {}, {}, NoCalls, FALSE)
    /\ call' = CallNone
    /\ UNCHANGED <<status, process, alive, spawned>>
    /\ host' = host

\* start_all, were its loop to give up on the services after a failed one.
StartAllIter_GiveUp ==
    /\ mgr.at = "start"
    /\ CallIdle
    /\ mgr.idx < Len(Keys)
    /\ LET key == Keys[mgr.idx + 1]
       IN IF key \in mgr.exclude \/ mgr.failed # {}
          THEN /\ mgr' = [mgr EXCEPT !.idx = @ + 1]
               /\ UNCHANGED <<status, process, alive, spawned, call>>
          ELSE StartBegin(World, "start", key, [mgr EXCEPT !.calls[key] = @ + 1])
    /\ host' = host

\* start_all, were it to visit the registry from its last key to its first.
StartAllIter_Reversed ==
    /\ mgr.at = "start"
    /\ CallIdle
    /\ mgr.idx < Len(Keys)
    /\ LET key == Keys[Len(Keys) - mgr.idx]
       IN IF key \in mgr.exclude
          THEN /\ mgr' = [mgr EXCEPT !.idx = @ + 1]
               /\ UNCHANGED <<status, process, alive, spawned, call>>
          ELSE StartBegin(World, "start", key, [mgr EXCEPT !.calls[key] = @ + 1])
    /\ host' = host

\* start_all, were it to start the services named in exclude as well.
StartAllIter_IgnoreExclude ==
    /\ mgr.at = "start"
    /\ CallIdle
    /\ mgr.idx < Len(Keys)
    /\ LET key == Keys[mgr.idx + 1]
       IN StartBegin(World, "start", key, [mgr EXCEPT !.calls[key] = @ + 1])
    /\ host' = host

\* start_all, lines 302-320: the next service of the registry.  start()
\* catches every Exception itself, so the handler of lines 318-320 has
\* nothing to catch; the KeyboardInterrupt handler of lines 314-317 is not
\* taken, the constructor having replaced the SIGINT handler (line 245).
StartAllIter ==
    /\ mgr.at = "start"
    /\ CallIdle
    /\ mgr.idx < Len(Keys)
    /\ LET key == Keys[mgr.idx + 1]
       IN IF key \in mgr.exclude
          THEN /\ mgr' = [mgr EXCEPT !.idx = @ + 1]
               /\ UNCHANGED <<status, process, alive, spawned, call>>
          ELSE StartBegin(World, "start", key, [mgr EXCEPT !.calls[key] = @ + 1])
    /\ host' = host

\* start_all, were it to return whether no service failed.
StartAllReturn_NoneFailed ==
    /\ mgr.at = "start"
    /\ CallIdle
    /\ mgr.idx = Len(Keys)
    /\ mgr' = [mgr EXCEPT !.at = "ret", !.val = (mgr.failed = {})]
    /\ UNCHANGED <<status, process, alive, spawned, call>>
    /\ host' = host

\* start_all, lines 322-333.
StartAllReturn ==
    /\ mgr.at = "start"
    /\ CallIdle
    /\ mgr.idx = Len(Keys)
    /\ mgr' = [mgr EXCEPT !.at = "ret", !.val = (mgr.ok # {})]
    /\ UNCHANGED <<status, process, alive, spawned, call>>
    /\ host' = host

\* stop_all, lines 335-337.
StopAll ==
    /\ Idle
    /\ mgr' = MgrRec("stop_all", "stop", 0, {}, {}, {}, NoCalls, FALSE)
    /\ call' = CallNone
    /\ UNCHANGED <<status, process, alive, spawned>>
    /\ host' = host

\* stop_all, lines 344-351: when stop() raised, service.process.kill() is
\* tried and its own failure swallowed; r is what stop() produced.
ForceCleanup(r, s) ==
    IF r.raised THEN {Reap(r.w, s), r.w} ELSE {r.w}

\* stop_all, were it to pass over the services in Error as well.
StopAllIter_SkipError ==
    /\ mgr.at = "stop"
    /\ mgr.idx < Len(Keys)
    /\ LET s == Keys[mgr.idx + 1]
       IN IF status[s] \notin {STOPPED, ERROR}
          THEN \E o \in TermOutcomes(World, s) :
                  LET r == stop(World, s, o)
                  IN /\ \E w \in ForceCleanup(r, s) : SetWorld(w)
                     /\ call' = [CallRec("stop", s, IF r.raised THEN "raised" ELSE "ret", 0,
                                         r.val, r.term, FALSE, o) EXCEPT !.kill = r.kill]
                     /\ mgr' = [mgr EXCEPT !.idx = @ + 1,
                                           !.calls[s] = @ + 1,
                                           !.failed = IF r.val THEN @ ELSE @ \cup {s}]
          ELSE /\ mgr' = [mgr EXCEPT !.idx = @ + 1]
               /\ UNCHANGED <<status, process, alive, spawned, call>>
    /\ host' = host

\* stop_all, lines 339-351: the next service; a service recorded Stopped is
\* passed over; an exception of stop() leads to the forced kill, whose own
\* failure is swallowed.
StopAllIter ==
    /\ mgr.at = "stop"
    /\ mgr.idx < Len(Keys)
    /\ LET s == Keys[mgr.idx + 1]
       IN IF status[s] # STOPPED
          THEN \E o \in TermOutcomes(World, s) :
                  LET r == stop(World, s, o)
                  IN /\ \E w \in ForceCleanup(r, s) : SetWorld(w)
                     /\ call' = [CallRec("stop", s, IF r.raised THEN "raised" ELSE "ret", 0,
                                         r.val, r.term, FALSE, o) EXCEPT !.kill = r.kill]
                     /\ mgr' = [mgr EXCEPT !.idx = @ + 1,
                                           !.calls[s] = @ + 1,
                                           !.failed = IF r.val THEN @ ELSE @ \cup {s}]
          ELSE /\ mgr' = [mgr EXCEPT !.idx = @ + 1]
               /\ UNCHANGED <<status, process, alive, spawned, call>>
    /\ host' = host

\* stop_all returns; restart_all (lines 353-358) goes on with start_all().
StopAllReturn ==
    /\ mgr.at = "stop"
    /\ mgr.idx = Len(Keys)
    /\ mgr' = IF mgr.op = "restart_all"
              THEN MgrRec("restart_all", "start", 0, {}, {}, {}, NoCalls, FALSE)
              ELSE [mgr EXCEPT !.at = "ret"]
    /\ call' = IF mgr.op = "restart_all" THEN CallNone ELSE call
    /\ UNCHANGED <<status, process, alive, spawned>>
    /\ host' = host

\* restart_all, lines 353-356.
RestartAll ==
    /\ Idle
    /\ mgr' = MgrRec("restart_all", "stop", 0, {}, {}, {}, NoCalls, FALSE)
    /\ call' = CallNone
    /\ UNCHANGED <<status, process, alive, spawned>>
    /\ host' = host

\* health_check_all (lines 364-369) is called.
HealthCheckAll ==
    /\ Idle
    /\ mgr' = MgrRec("health_check_all", "probe", 0, {}, {}, {}, NoCalls, FALSE)
    /\ call' = CallNone
    /\ UNCHANGED <<status, process, alive, spawned>>
    /\ host' = host

\* get_status (lines 371-380) is called.
GetStatus ==
    /\ Idle
    /\ mgr' = [MgrRec("get_status", "probe", 0, {}, {}, {}, NoCalls, FALSE)
                 EXCEPT !.prev = IF mgr.op = "get_status" THEN mgr.healthy ELSE {},
                        !.crashed = IF call.at = "ret" /\ call.out = "crashed"
                                    THEN call.s ELSE "-"]
    /\ call' = CallNone
    /\ UNCHANGED <<status, process, alive, spawned>>
    /\ host' = host

\* get_status, were it to report healthy from the status stored before the
\* probe, as it does the "status" entry.
ProbeIter_Stored ==
    /\ mgr.at = "probe"
    /\ LET s == Keys[mgr.idx + 1]
       IN \E o \in ProbeOutcomes :
             /\ SetWorld(check_health(World, s, o))
             /\ mgr' = [mgr EXCEPT
                           !.idx = @ + 1,
                           !.at = IF mgr.idx + 1 = Len(Keys) THEN "ret" ELSE "probe",
                           !.healthy = IF status[s] = RUNNING THEN @ \cup {s} ELSE @,
                           !.answered = IF o = "ok" THEN @ \cup {s} ELSE @,
                           !.running = IF mgr.op = "get_status" /\ status[s] = RUNNING
                                       THEN @ \cup {s} ELSE @]
    /\ call' = call
    /\ host' = host

\* The comprehension of health_check_all and get_status (lines 366-369 and
\* 373-380): check_health() of the next service, whose returned value is
\* the entry of the dictionary; after the last one the method returns.
\* In get_status the "status" entry of the service (line 375) is evaluated
\* before the call of check_health (line 377): running holds the services
\* whose entry says "running".
ProbeIter ==
    /\ mgr.at = "probe"
    /\ LET s == Keys[mgr.idx + 1]
       IN \E o \in ProbeOutcomes :
             /\ SetWorld(check_health(World, s, o))
             /\ mgr' = [mgr EXCEPT
                           !.idx = @ + 1,
                           !.at = IF mgr.idx + 1 = Len(Keys) THEN "ret" ELSE "probe",
                           !.healthy = IF is_healthy(o) THEN @ \cup {s} ELSE @,
                           !.answered = IF o = "ok" THEN @ \cup {s} ELSE @,
                           !.running = IF mgr.op = "get_status" /\ status[s] = RUNNING
                                       THEN @ \cup {s} ELSE @]
    /\ call' = call
    /\ host' = host

\* ----------------------------------------------------------- environment
\* A running child process exits on its own.
ChildExit(s) ==
    /\ \E pid \in alive[s] : alive' = [alive EXCEPT ![s] = @ \ {pid}]
    /\ UNCHANGED <<status, process, spawned, call, mgr>>
    /\ host' = host

\* python -m coordinator.main start, in a process of its own: line 12 of
\* main.py imports call_rag_service and call_image_gen_service from
\* service_manager, which defines neither (lines 383-385), so the import
\* raises ImportError before main() is reached and the process exits with
\* code 1; cmd_start (lines 18-53) is never entered.
main ==
    /\ host = HostInit
    /\ call = CallNone
    /\ mgr = MgrNone
    /\ \A s \in Services : spawned[s] = 0 /\ status[s] = STOPPED
    /\ host' = [host EXCEPT !.up = FALSE, !.code = 1, !.cmd = "start"]
    /\ UNCHANGED <<status, process, alive, spawned, call, mgr>>

Next ==
    \/ main
    \/ \E s \in Services : Start(s)
    \/ \E s \in Services : Stop(s)
    \/ \E s \in Services : CheckHealth(s)
    \/ CheckHealthReturn
    \/ \E s \in Services : Restart(s)
    \/ StartSpawn
    \/ StartTick
    \/ StartTimeout
    \/ StartTimeoutEOF
    \/ \E exclude \in SUBSET Services : StartAll(exclude)
    \/ StartAllIter
    \/ StartAllReturn
    \/ StopAll
    \/ StopAllIter
    \/ StopAllReturn
    \/ RestartAll
    \/ HealthCheckAll
    \/ GetStatus
    \/ ProbeIter
    \/ \E s \in Services : ChildExit(s)

Spec == Init /\ [][Next]_vars

\* ---------------------------------------------------------------- signals
\* signal_handler is defined without parameters (line 235); the interpreter
\* calls a handler installed by signal.signal (lines 245-246) with two
\* arguments, the signal number and the interrupted frame.
HandlerParams == 0
SignalArgs == 2

\* stop_all (lines 335-351) run from service k of the registry to the end:
\* the states it can leave.
RECURSIVE StopAllFrom(_, _)
StopAllFrom(w, k) ==
    IF k > Len(Keys) THEN {w}
    ELSE LET s == Keys[k]
             after == IF w.status[s] # STOPPED
                      THEN UNION {ForceCleanup(stop(w, s, o), s) : o \in TermOutcomes(w, s)}
                      ELSE {w}
         IN UNION {StopAllFrom(w2, k + 1) : w2 \in after}

\* The body of signal_handler (lines 236-243): the flag it leaves, whether
\* it runs stop_all(), and the code it exits with.
signal_handler_body(h) ==
    IF ~h.shutdown_requested
    THEN [raised |-> FALSE, stop_all |-> TRUE, code |-> 0,
          h |-> [h EXCEPT !.shutdown_requested = TRUE, !.sig_stop_alls = @ + 1]]
    ELSE [raised |-> FALSE, stop_all |-> FALSE, code |-> 1, h |-> h]

\* signal_handler, were it to take the two arguments, run stop_all() on
\* every signal and return, with no flag and no exit.
signal_handler_NoFlag(h) ==
    [raised |-> FALSE, stop_all |-> TRUE, code |-> -1,
     h |-> [h EXCEPT !.sig_stop_alls = @ + 1]]

\* The call of the handler on a signal: with a number of arguments the
\* function does not take, the call raises TypeError and the body is not
\* entered.
signal_handler(h) ==
    IF SignalArgs # HandlerParams
    THEN [raised |-> TRUE, stop_all |-> FALSE, code |-> -1, h |-> h]
    ELSE signal_handler_body(h)

\* A SIGINT or SIGTERM is delivered to the host process.  The exception of
\* the handler call surfaces in the main thread where it stands: inside
\* start() it is caught by lines 152-156 (when it surfaces after Popen has
\* created the child and before line 101 has stored the handle, the child
\* runs on and the cleanup sees only the handle of before), inside the loop body of
\* stop_all() by lines 344-351 (stop() itself returns False on it, lines
\* 194-196), and anywhere else (check_health catches only
\* RequestException) it reaches the caller, which dies of it with exit
\* code 1, after a stop_all() of its own (the finally clause of run(),
\* analyze_and_transform_image.py lines 258-266) or leaving the children
\* running (keep_services).
Signal ==
    /\ host.up
    /\ host.signals < MaxSignals
    /\ LET r == signal_handler(host)
           h == [r.h EXCEPT !.signals = @ + 1]
       IN IF r.raised
          THEN \/ /\ call.at \in {"spawn", "poll", "read"}
                  /\ \E o \in TermOutcomes(World, call.s) :
                        StartReturns(
                            cleanup_failed_process(
                                [World EXCEPT !.status[call.s] = ERROR], call.s, o),
                            FALSE, "exception")
                  /\ host' = h
               \/ /\ call.at = "spawn"
                  /\ TotalSpawned(World) < MaxSpawn
                  /\ LET s == call.s
                         pid == spawned[s] + 1
                         w == [World EXCEPT !.alive[s] = @ \cup {pid},
                                            !.spawned[s] = pid,
                                            !.status[s] = ERROR]
                     IN \E o \in TermOutcomes(w, s) :
                           StartReturns(cleanup_failed_process(w, s, o),
                                        FALSE, "exception")
                  /\ host' = h
               \/ /\ mgr.at = "stop"
                  /\ mgr.idx < Len(Keys)
                  /\ LET s == Keys[mgr.idx + 1]
                     IN /\ \E w \in ForceCleanup([w |-> World, raised |-> TRUE], s) :
                              SetWorld(w)
                        /\ mgr' = [mgr EXCEPT !.idx = @ + 1, !.failed = @ \cup {s}]
                  /\ call' = call
                  /\ host' = h
               \/ /\ call.at \notin {"spawn", "poll", "read"}
                  /\ ~(mgr.at = "stop" /\ mgr.idx < Len(Keys))
                  /\ host' = [h EXCEPT !.up = FALSE, !.code = 1]
                  /\ \E w \in {World} \cup StopAllFrom(World, 1) : SetWorld(w)
                  /\ UNCHANGED <<call, mgr>>
          ELSE /\ \E w \in (IF r.stop_all THEN StopAllFrom(World, 1) ELSE {World}) :
                     SetWorld(w)
               /\ host' = IF r.code >= 0 THEN [h EXCEPT !.up = FALSE, !.code = r.code]
                          ELSE h
               /\ UNCHANGED <<call, mgr>>

\* The host processes of the repository (analyze_and_transform_image.py
\* lines 55-74, call_text_to_speech.py and call_speech_to_text.py lines
\* 40-69) construct a ServiceManager, call start_all() or start() of one
\* service, and stop_all() at the end; a signal may arrive at any moment.
NextSignal ==
    \/ \E s \in Services : Start(s)
    \/ StartAll({})
    \/ StartAllIter
    \/ StartAllReturn
    \/ StartSpawn
    \/ StartTick
    \/ StartTimeout
    \/ StartTimeoutEOF
    \/ StopAll
    \/ StopAllIter
    \/ StopAllReturn
    \/ \E s \in Services : ChildExit(s)
    \/ Signal

SpecSignal == Init /\ [][NextSignal]_vars

TypeOK ==
    /\ status \in [Services -> ServiceStatus]
    /\ process \in [Services -> 0..(MaxSpawn + 1)]
    /\ \A s \in Services : process[s] \in 0..spawned[s]
    /\ \A s \in Services : alive[s] \subseteq 1..spawned[s]

\* =================================================================== claims
Active == {STARTING, RUNNING, UNHEALTHY}

\* C1: between operations, a service holds a process handle if and only if
\* its status is Starting, Running or Unhealthy.
C1_HandleIffActive ==
    Idle => \A s \in Services : (process[s] # None) <=> (status[s] \in Active)

\* C2: when stop() was called on a service that held a handle, then after
\* it (returned or failed) the handle is released and the status is Stopped.
C2_StopReleasesHandle ==
    (call.op = "stop" /\ call.at \in {"ret", "raised"} /\ call.term)
        => (process[call.s] = None /\ status[call.s] = STOPPED)

\* C3: start_all returns true if and only if a service outside exclude is
\* Running on return, and false only when every attempted service failed.
C3_StartAllResult ==
    (mgr.op \in {"start_all", "restart_all"} /\ mgr.at = "ret")
        => /\ mgr.val <=> (\E s \in Services \ mgr.exclude : status[s] = RUNNING)
           /\ ~mgr.val => mgr.failed = Services \ mgr.exclude

C3_Witness ==
    /\ mgr.op = "start_all" /\ mgr.at = "ret" /\ mgr.val
    /\ mgr.failed # {} /\ mgr.exclude # {}
    /\ \E s \in mgr.exclude : status[s] = RUNNING

\* C4: start_all calls start() exactly once on every service outside exclude
\* and on no other, whatever the earlier calls returned; on return each
\* service whose start() succeeded is Running and each whose start() failed,
\* a misconfigured one included, is in Error.
C4_StartAllContinues ==
    (mgr.op \in {"start_all", "restart_all"} /\ mgr.at = "ret")
        => /\ \A s \in Services : mgr.calls[s] = (IF s \in mgr.exclude THEN 0 ELSE 1)
           /\ mgr.ok \cup mgr.failed = Services \ mgr.exclude
           /\ mgr.ok \cap mgr.failed = {}
           /\ mgr.missing \subseteq mgr.failed
           /\ \A s \in mgr.ok : status[s] = RUNNING
           /\ \A s \in mgr.failed : status[s] = ERROR

C4_Witness ==
    /\ mgr.op = "start_all" /\ mgr.at = "ret" /\ mgr.val
    /\ Keys[1] \in mgr.missing /\ status[Keys[1]] = ERROR
    /\ Keys[2] \in mgr.ok /\ status[Keys[2]] = RUNNING

\* C5 (as claimed): stop_all calls stop() on every registered service.
C5_StopAllCallsEvery ==
    (mgr.op = "stop_all" /\ mgr.at = "ret") => \A s \in Services : mgr.calls[s] = 1

\* C5 (amended): each step of stop_all's loop calls stop() once on the
\* service it visits when that service is recorded Starting, Running,
\* Unhealthy or Error, and passes over a service recorded Stopped, which
\* holds no running child.
C5_StopAllCallsNotStopped ==
    [][(mgr.at = "stop" /\ mgr'.at = "stop" /\ mgr'.idx = mgr.idx + 1)
        => LET s == Keys[mgr.idx + 1]
           IN /\ mgr'.calls[s] = (IF status[s] # STOPPED THEN 1 ELSE 0)
              /\ \A t \in Services \ {s} : mgr'.calls[t] = mgr.calls[t]
              /\ status[s] = STOPPED => (~Live(World, s) /\ alive' = alive)]_vars

C5_Witness ==
    /\ mgr.op = "stop_all" /\ mgr.at = "ret"
    /\ \E s \in Services : mgr.calls[s] = 1 /\ status[s] = ERROR /\ process[s] # None
    /\ \E s \in Services : mgr.calls[s] = 0 /\ status[s] = STOPPED

\* C6: when the stop() of one service failed during stop_all, then on return
\* no registered service has a running child and every other service that
\* held a process is Stopped.
C6_StopAllTerminatesAll ==
    (mgr.op = "stop_all" /\ mgr.at = "ret" /\ Cardinality(mgr.failed) = 1)
        => /\ \A s \in Services : ~Live(World, s)
           /\ \A s \in Services \ mgr.failed : process[s] # None => status[s] = STOPPED

C8_StopIdempotent ==
    [][\A s \in Services :
          (Idle /\ status[s] = STOPPED /\ call' # call /\ call'.op = "stop" /\ call'.s = s)
              => /\ call'.at = "ret" /\ call'.val /\ ~call'.term
                 /\ status'[s] = STOPPED]_vars

\* C9: a failed check_health() turns Running into Unhealthy and leaves every
\* other status as it was.
C9_FailedCheckOnlyDowngradesRunning ==
    [][(call.op = "check_health" /\ call.at = "probe" /\ call'.at = "ret" /\ ~call'.val)
          => status'[call.s] = (IF status[call.s] = RUNNING THEN UNHEALTHY
                                ELSE status[call.s])]_vars

\* C10: check_health(), called alone, by health_check_all, by get_status or
\* by the polling loop of start(), leaves every handle, every child and the
\* number of children spawned as they were; on a Running service whose
\* probe fails it sets Unhealthy and the child it holds stays as it was.
C10_CheckHealthFrame ==
    [][(\/ (call.op = "check_health" /\ call.at = "probe" /\ call'.at = "ret")
        \/ (mgr.at = "probe" /\ mgr' # mgr)
        \/ (call.at = "poll" /\ call'.at = "poll" /\ call'.i = call.i + 1)
        \/ (call.at = "poll" /\ call'.at = "ret" /\ call'.val))
          => (/\ process' = process
              /\ alive' = alive
              /\ spawned' = spawned
              /\ (call.op = "check_health" /\ status[call.s] = RUNNING /\ ~call'.val)
                    => status'[call.s] = UNHEALTHY)]_vars

C10_Witness ==
    /\ call.op = "check_health" /\ call.at = "ret" /\ ~call.val
    /\ status[call.s] = UNHEALTHY /\ Live(World, call.s)

\* C11 (as claimed): a start() that finds its child exited before any probe
\* succeeded returns failure, leaves the status Error and the handle
\* released, and a get_status() called next reports that service not healthy.
C11_CrashBeforeReady ==
    /\ (call.at = "ret" /\ call.out = "crashed")
          => (~call.val /\ status[call.s] = ERROR /\ process[call.s] = None)
    /\ (mgr.op = "get_status" /\ mgr.at = "ret" /\ mgr.crashed # "-")
          => mgr.crashed \notin mgr.healthy

\* C11 (amended): a start() that finds its child exited before any probe
\* succeeded returns failure, leaves the status Error and the handle
\* released; a get_status() called next holds no handle for that service
\* and reports it not healthy unless its health URL answered 200 to the
\* probe of that call.
C11_CrashThenProbed ==
    /\ (call.at = "ret" /\ call.out = "crashed")
          => (~call.val /\ status[call.s] = ERROR /\ process[call.s] = None)
    /\ (mgr.op = "get_status" /\ mgr.at = "ret" /\ mgr.crashed # "-")
          => /\ process[mgr.crashed] = None
             /\ mgr.crashed \notin mgr.answered => mgr.crashed \notin mgr.healthy

C11_Witness ==
    /\ mgr.op = "get_status" /\ mgr.at = "ret" /\ mgr.crashed # "-"
    /\ mgr.crashed \notin mgr.healthy
    /\ status[mgr.crashed] = ERROR /\ process[mgr.crashed] = None
    /\ spawned[mgr.crashed] > 0

\* C12: a start() whose polling loop is exhausted returns failure with the
\* status Error and the handle released, and the child it spawned is no
\* longer running.
C12_TimeoutCleansUp ==
    (call.at = "ret" /\ call.out = "timeout")
        => /\ ~call.val
           /\ status[call.s] = ERROR
           /\ process[call.s] = None
           /\ spawned[call.s] \notin alive[call.s]

\* C13: a start() that finds the interpreter or the script missing returns
\* failure with the status Error, spawns no child, and leaves the status,
\* the handle and the children of every other service as they were.
C13_MissingConfiguration ==
    [][(call.at = "spawn" /\ call'.at = "ret" /\ call'.out = "missing")
          => LET s == call.s
             IN /\ ~call'.val
                /\ status'[s] = ERROR
                /\ spawned' = spawned
                /\ alive'[s] \subseteq alive[s]
                /\ \A t \in Services \ {s} :
                      /\ status'[t] = status[t]
                      /\ process'[t] = process[t]
                      /\ alive'[t] = alive[t]]_vars

C13_Witness ==
    /\ call.at = "ret" /\ call.out = "missing" /\ ~call.val
    /\ status[call.s] = ERROR /\ spawned[call.s] = 0
    /\ \E t \in Services \ {call.s} : status[t] = RUNNING /\ Live(World, t)

\* C17: a service recorded Running or Unhealthy holds a running child.
C17_RunningHasLiveChild ==
    \A s \in Services : status[s] \in {RUNNING, UNHEALTHY} => Live(World, s)

\* One check_health() of service s, called alone or by get_status or
\* health_check_all, completes in this step.
ProbeStep(s) ==
    \/ call.op = "check_health" /\ call.at = "probe" /\ call.s = s /\ call'.at = "ret"
    \/ mgr.at = "probe" /\ Keys[mgr.idx + 1] = s /\ mgr'.idx = mgr.idx + 1

\* C18: a check_health(), alone or within get_status, leaves a service
\* recorded Stopped or Error in that status whatever the health URL
\* answers, and a service leaves Error only by a start() or restart() of it.
C18_ProbeKeepsStoppedAndError ==
    [][\A s \in Services :
          /\ (ProbeStep(s) /\ status[s] \in {STOPPED, ERROR}) => status'[s] = status[s]
          /\ (status[s] = ERROR /\ status'[s] # ERROR)
                => (call'.s = s /\ call'.op \in {"start", "restart"})]_vars

\* C19: while start_all(exclude) runs, no step calls start() on a service
\* named in exclude or changes its status or its handle.
C19_ExcludedUntouched ==
    [][(mgr.op = "start_all" /\ mgr.at = "start")
          => \A s \in mgr.exclude :
                /\ mgr'.calls[s] = 0
                /\ ~(call' # call /\ call'.s = s)
                /\ status'[s] = status[s]
                /\ process'[s] = process[s]]_vars

C19_Witness ==
    /\ mgr.op = "start_all" /\ mgr.at = "ret" /\ mgr.ok # {}
    /\ \E s \in mgr.exclude : status[s] = UNHEALTHY /\ process[s] # None
    /\ \E s \in mgr.exclude : status[s] = STOPPED

\* C20: the services get_status() reports healthy are those whose health
\* URL answered 200 to a GET issued during that call, which are those the
\* call leaves Running, whatever the call before it reported.
C20_HealthyIsProbedNow ==
    (mgr.op = "get_status" /\ mgr.at = "ret")
        => /\ mgr.healthy = mgr.answered
           /\ mgr.healthy = {s \in Services : status[s] = RUNNING}

C20_Witness ==
    /\ mgr.op = "get_status" /\ mgr.at = "ret"
    /\ mgr.prev # {} /\ mgr.healthy # {}
    /\ mgr.prev \ mgr.healthy # {} /\ mgr.healthy \ mgr.prev # {}

\* C14: once a signal has been delivered the shutdown flag is set, and when
\* the host process has exited after it, it exited with code 0, no service
\* has a running child and every service that held a process is Stopped.
C14_FirstSignalGracefulExit ==
    host.signals >= 1
        => /\ host.shutdown_requested
           /\ ~host.up => /\ host.code = 0
                          /\ \A s \in Services : ~Live(World, s)
                          /\ \A s \in Services : process[s] # None => status[s] = STOPPED

\* C15: a signal delivered after an earlier one, the flag being set by the
\* first, makes the host process exit at once with code 1 and starts no
\* stop_all().
C15_RepeatedSignalForcesExit ==
    [][(host.signals >= 1 /\ host'.signals = host.signals + 1)
          => (/\ ~host'.up
              /\ host'.code = 1
              /\ host'.sig_stop_alls = host.sig_stop_alls)]_vars

WorldNext ==
    [status |-> status', process |-> process', alive |-> alive', spawned |-> spawned']

\* C21: restart() does what stop() does and then what start() begins with,
\* going on as start() does: it stops short only where stop() raises; and
\* restart_all() begins as stop_all() and, once every service has been
\* visited, goes on as start_all() with an empty exclude set.
C21_RestartIsStopThenStart ==
    [][/\ (Idle /\ call' # call /\ call'.op = "restart")
            => \E o \in TermOutcomes(World, call'.s) :
                  LET s == call'.s
                      r == stop(World, s, o)
                  IN IF r.raised
                     THEN WorldNext = r.w /\ call'.at = "raised"
                     ELSE IF r.w.status[s] = RUNNING
                     THEN WorldNext = r.w /\ call'.at = "ret" /\ call'.val
                     ELSE /\ WorldNext = [r.w EXCEPT !.status[s] = STARTING]
                          /\ call'.at = "spawn"
       /\ (Idle /\ mgr' # mgr /\ mgr'.op = "restart_all")
            => /\ mgr' = [MgrRec("stop_all", "stop", 0, {}, {}, {}, NoCalls, FALSE)
                           EXCEPT !.op = "restart_all"]
               /\ WorldNext = World
       /\ (mgr.op = "restart_all" /\ mgr.at = "stop" /\ mgr'.at # "stop")
            => /\ mgr.idx = Len(Keys)
               /\ mgr' = [MgrRec("start_all", "start", 0, {}, {}, {}, NoCalls, FALSE)
                           EXCEPT !.op = "restart_all"]
               /\ WorldNext = World]_vars

C21_Witness ==
    /\ call.op = "restart" /\ call.at = "ret" /\ call.val
    /\ status[call.s] = RUNNING
    /\ spawned[call.s] = 2 /\ process[call.s] = 2 /\ alive[call.s] = {2}

\* C22: the process run for the start command exits with a code other than
\* 0 if and only if start_all() returned false.
C22_StartExitCode ==
    (host.cmd = "start" /\ ~host.up)
        => (host.code # 0 <=> (mgr.op = "start_all" /\ mgr.at = "ret" /\ ~mgr.val))

\* C23: a start() in progress has made at most max_retries ticks and is
\* never held up by anything else: after the last tick it does not wait
\* while its child runs.
C23_StartWaitBounded ==
    (call.at \in {"spawn", "poll", "read"})
        => /\ call.i <= max_retries
           /\ ~(call.at = "read" /\ Live(World, call.s))

\* C24: a tick of start() that finds the child exited returns failure and
\* leaves the status Error, whatever the health URL would answer.
C24_ExitCheckBeforeProbe ==
    [][(call.at = "poll" /\ ~Live(World, call.s) /\ call' # call)
          => (/\ call'.at = "ret" /\ ~call'.val
              /\ status'[call.s] = ERROR)]_vars

C24_Witness ==
    /\ call.at = "ret" /\ call.out = "crashed" /\ call.i >= 1
    /\ status[call.s] = ERROR

C27_NoUnreferencedChild ==
    \A s \in Services : alive[s] \subseteq {process[s]}

\* C28: a start() that returned true left the status Running and one that
\* returned false left it Error.
C28_ResultAgreesWithStatus ==
    (call.op \in {"start", "restart"} /\ call.at = "ret")
        => status[call.s] = (IF call.val THEN RUNNING ELSE ERROR)

C28_Witness ==
    /\ call.op = "start" /\ call.at = "ret" /\ ~call.val /\ call.out = "timeout"
    /\ status[call.s] = ERROR /\ process[call.s] = None

\* C29: when the host process has exited on a signal delivered while
\* start_all() or start() was executing, no child process is running.
C29_SignalDuringStartLeavesNoChild ==
    (~host.up /\ host.signals >= 1 /\ (mgr.at = "start" \/ call.out = "exception"))
        => \A s \in Services : alive[s] = {}

\* C25: a stop() that killed the child had asked it to terminate first and
\* found it running when the wait ended; a child that exited within the
\* wait was asked to terminate and was not killed; in both cases stop()
\* returned true and left the status Stopped.
C25_GracefulThenForced ==
    (call.op = "stop" /\ call.at \in {"ret", "raised"})
        => /\ call.kill => (call.term /\ call.out \in {"forced", "kill_err"})
           /\ call.out \in {"graceful", "exited"} => (call.term /\ ~call.kill)
           /\ call.out \in {"graceful", "forced"}
                 => (call.val /\ status[call.s] = STOPPED
                     /\ process[call.s] \notin alive[call.s])
           /\ call.out = "forced" => call.kill

C25_Witness ==
    /\ call.op = "stop" /\ call.at = "ret" /\ call.out = "forced" /\ call.kill
    /\ status[call.s] = STOPPED /\ spawned[call.s] = 1

\* C30: in the entries get_status() has built, healthy is true exactly
\* when the status entry says running.
C30_EntryConsistent ==
    mgr.op = "get_status"
        => \A k \in 1..mgr.idx :
              (Keys[k] \in mgr.healthy) <=> (Keys[k] \in mgr.running)

====
